---------------------------- MODULE Spec2Model ----------------------------
(***************************************************************************)
(* Model of products/models.py: the category tree (Category), the          *)
(* characteristics owned by categories (Characteristic), products          *)
(* (Product) and their attributes (ProductAttribute).                      *)
(*                                                                         *)
(* The database tables are the variables; each model method is an         *)
(* operator (queries, clean) or an action (save).  A generator or a list   *)
(* is a sequence; a queryset that is only filtered further is a set.       *)
(***************************************************************************)
EXTENDS Integers, Sequences, FiniteSets

\* ------------------------------------------------------------------ bounds

\* categories of the catalogues drawn by InitTree / InitProduct
NumCats == 3
\* rows the category table may grow to under the category-save specifications
MaxCategories == 2
\* products of the catalogue
NumProducts == 2
\* rows the attribute table may grow to under SpecProduct
MaxAttrs == 2
\* nested generator frames the interpreter allows (Python: 1000)
RecursionLimit == 3

\* ------------------------------------------------------------- basic data

\* Python's None / SQL NULL for a foreign key or a nullable column
None == 0

CategoryIds == 1..NumCats
SaveCategoryIds == 1..MaxCategories
ProductIds == 1..NumProducts
\* two characteristics, "voltage" (id 1) and "power" (id 2)
CharacteristicIds == {1, 2}

\* the names an administrator enters: "a", "A" with a grave accent, and "b!"
CategoryNames == {<<"a">>, <<"A_grave">>, <<"b", "!">>}
\* the values entered for an attribute: "", "1", "1.", ".1", "10", "." and "N"
AttributeValues ==
    {<<>>, <<"1">>, <<"1", ".">>, <<".", "1">>, <<"1", "0">>, <<".">>, <<"N">>}
\* the names entered for a free-form attribute ("" leaves the field blank)
AttributeNames == {<<>>, <<"n">>}

Range(s) == {s[i] : i \in DOMAIN s}

\* a set of ids as the sequence a queryset yields (id order)
RECURSIVE SetToSeq(_)
SetToSeq(S) ==
    IF S = {} THEN <<>>
    ELSE LET m == CHOOSE x \in S : \A y \in S : x <= y
         IN  <<m>> \o SetToSeq(S \ {m})

\* --------------------------------------------------------------- variables

VARIABLES
    parent,             \* Category.parent:  [existing category id -> id or None]
    name,               \* Category.name
    slug,               \* Category.slug
    charCategory,       \* Characteristic.category: [characteristic id -> category id]
    productCategory,    \* Product.category of the persisted products
    attributes,         \* ProductAttribute table: sequence of rows, row id = index
    instance,           \* the in-memory ProductAttribute under SpecAttribute
    walk,               \* the position of a running get_ancestors generator
    last                \* the last operation called and what it returned or raised

vars == <<parent, name, slug, charCategory, productCategory, attributes,
          instance, walk, last>>

\* ------------------------------------------------- slugify(unidecode(name))

\* unidecode: transliterates a non-ASCII character to ASCII
UnidecodeChar(ch) == IF ch = "A_grave" THEN "A" ELSE ch

Unidecode(s) == [i \in DOMAIN s |-> UnidecodeChar(s[i])]

IsSpaceOrHyphen(ch) == ch \in {" ", "-"}

\* \w of the regular expression: letters, digits, underscore
IsWordChar(ch) == ch \in {"a", "b", "c", "d", "e", "f", "A", "_"}

LowerChar(ch) == IF ch = "A" THEN "a" ELSE ch

\* re.sub('[^\w\s-]', '', value)
RECURSIVE RemoveOther(_)
RemoveOther(s) ==
    IF s = <<>> THEN <<>>
    ELSE IF IsWordChar(Head(s)) \/ IsSpaceOrHyphen(Head(s))
         THEN <<Head(s)>> \o RemoveOther(Tail(s))
         ELSE RemoveOther(Tail(s))

RECURSIVE StripLeft(_)
StripLeft(s) ==
    IF s # <<>> /\ Head(s) = " " THEN StripLeft(Tail(s)) ELSE s

RECURSIVE StripRight(_)
StripRight(s) ==
    IF s # <<>> /\ s[Len(s)] = " " THEN StripRight(SubSeq(s, 1, Len(s) - 1)) ELSE s

RECURSIVE SkipSpaceOrHyphen(_)
SkipSpaceOrHyphen(s) ==
    IF s # <<>> /\ IsSpaceOrHyphen(Head(s)) THEN SkipSpaceOrHyphen(Tail(s)) ELSE s

\* re.sub('[-\s]+', '-', value)
RECURSIVE Hyphenate(_)
Hyphenate(s) ==
    IF s = <<>> THEN <<>>
    ELSE IF IsSpaceOrHyphen(Head(s))
         THEN <<"-">> \o Hyphenate(SkipSpaceOrHyphen(Tail(s)))
         ELSE <<Head(s)>> \o Hyphenate(Tail(s))

Slugify(s) ==
    LET kept == StripRight(StripLeft(RemoveOther(s)))
        lowered == [i \in DOMAIN kept |-> LowerChar(kept[i])]
    IN  Hyphenate(lowered)

\* ------------------------------------------------------ ProductAttribute

\* NULL in the value_float column; a number is <<mantissa, decimals>>, the
\* value mantissa / 10^decimals with no trailing zero decimal
NoFloat == << >>

IsDigit(ch) == ch \in {"0", "1", "2", "3", "4", "5", "6", "7", "8", "9"}

DigitValue(ch) ==
    CASE ch = "0" -> 0 [] ch = "1" -> 1 [] ch = "2" -> 2 [] ch = "3" -> 3
      [] ch = "4" -> 4 [] ch = "5" -> 5 [] ch = "6" -> 6 [] ch = "7" -> 7
      [] ch = "8" -> 8 [] ch = "9" -> 9

RECURSIVE DigitsValue(_)
DigitsValue(s) ==
    IF s = <<>> THEN 0
    ELSE 10 * DigitsValue(SubSeq(s, 1, Len(s) - 1)) + DigitValue(s[Len(s)])

RECURSIVE NormalFloat(_, _)
NormalFloat(m, k) ==
    IF k > 0 /\ m % 10 = 0 THEN NormalFloat(m \div 10, k - 1) ELSE <<m, k>>

\* float(value) accepts digits with at most one decimal point and at least
\* one digit (of the characters modelled); anything else is a ValueError
FloatParses(s) ==
    /\ \A i \in DOMAIN s : IsDigit(s[i]) \/ s[i] = "."
    /\ Cardinality({i \in DOMAIN s : s[i] = "."}) <= 1
    /\ \E i \in DOMAIN s : IsDigit(s[i])

\* float(value) of a value that parses
FloatOf(s) ==
    LET digits == SelectSeq(s, IsDigit)
        point == {i \in DOMAIN s : s[i] = "."}
        decimals == IF point = {} THEN 0
                    ELSE Len(s) - (CHOOSE i \in point : TRUE)
    IN  NormalFloat(DigitsValue(digits), decimals)

\* ProductAttribute(product=p): the instance a caller constructs
NewAttribute ==
    [id |-> None, product |-> 1, characteristic |-> None, name |-> <<>>,
     value |-> <<>>, value_float |-> NoFloat]

\* clean() with the second check left out
CleanWithoutMissingCheck(self) ==
    IF self.characteristic # None /\ self.name # <<>>
    THEN "AttributeIdentityConflict"
    ELSE "ok"

\* ProductAttribute.clean: the error it raises, or "ok"
ProductAttributeClean(self) ==
    IF self.characteristic # None /\ self.name # <<>>
    THEN "AttributeIdentityConflict"
    ELSE IF ~(self.characteristic # None) /\ ~(self.name # <<>>)
         THEN "AttributeIdentityMissing"
         ELSE "ok"

\* ProductAttribute.save, up to the call of Model.save: the instance with
\* value_float set by float(self.value), a ValueError passed over
ProductAttributeSave(self) ==
    IF FloatParses(self.value)
    THEN [self EXCEPT !.value_float = FloatOf(self.value)]
    ELSE self

\* Model.save of an attribute: the table with the row inserted (the next id)
\* or updated
WriteAttribute(table, self) ==
    IF self.id = None
    THEN Append(table, [self EXCEPT !.id = Len(table) + 1])
    ELSE [table EXCEPT ![self.id] = self]

\* the caller assigns the fields of the instance
AttributeAssign(ch, n, v) ==
    /\ instance' = [instance EXCEPT !.characteristic = ch, !.name = n, !.value = v]
    /\ instance' # instance
    /\ last' = [op |-> "attribute_assign", result |-> "ok"]
    /\ UNCHANGED <<parent, name, slug, charCategory, productCategory,
                   attributes, walk>>

AttributeCallClean ==
    /\ last' = [op |-> "attribute_clean", result |-> ProductAttributeClean(instance)]
    /\ UNCHANGED <<parent, name, slug, charCategory, productCategory,
                   attributes, instance, walk>>

AttributeCallSave ==
    /\ attributes' = WriteAttribute(attributes, ProductAttributeSave(instance))
    /\ instance' = IF instance.id = None
                   THEN attributes'[Len(attributes')]
                   ELSE attributes'[instance.id]
    /\ last' = [op |-> "attribute_save", result |-> "ok"]
    /\ UNCHANGED <<parent, name, slug, charCategory, productCategory, walk>>

\* one root category owning both characteristics, one product saved in it,
\* and an attribute instance just constructed for that product
InitAttribute ==
    /\ parent = <<None>>
    /\ name = <<<<"a">>>>
    /\ slug = <<Slugify(Unidecode(<<"a">>))>>
    /\ charCategory = [ch \in CharacteristicIds |-> 1]
    /\ productCategory = <<1>>
    /\ attributes = << >>
    /\ instance = NewAttribute
    /\ walk = [state |-> "idle", node |-> None, yielded |-> 0]
    /\ last = [op |-> "none"]

NextAttribute ==
    \/ \E ch \in CharacteristicIds \cup {None}, n \in AttributeNames,
          v \in AttributeValues : AttributeAssign(ch, n, v)
    \/ AttributeCallClean
    \/ AttributeCallSave

SpecAttribute == InitAttribute /\ [][NextAttribute]_vars

\* ---- C5, C6

\* C5: after a save the instance and its row hold float(value) in value_float
\* when the value parses and NULL when it does not, and the save raised
\* nothing
C5_ValueFloatFollowsValue ==
    last.op = "attribute_save" =>
        /\ last.result = "ok"
        /\ instance.value_float =
              IF FloatParses(instance.value) THEN FloatOf(instance.value) ELSE NoFloat
        /\ attributes[instance.id].value_float = instance.value_float

\* C6: clean() passes exactly when one of characteristic and name is set;
\* both set is AttributeIdentityConflict, neither is AttributeIdentityMissing
C6_ExactlyOneIdentity ==
    last.op = "attribute_clean" =>
        LET hasCharacteristic == instance.characteristic \in CharacteristicIds
            hasName == Len(instance.name) > 0
        IN  /\ last.result = "ok" <=> (hasCharacteristic # hasName)
            /\ (hasCharacteristic /\ hasName) =>
                  last.result = "AttributeIdentityConflict"
            /\ (~hasCharacteristic /\ ~hasName) =>
                  last.result = "AttributeIdentityMissing"

\* clean() was called on an instance with both a characteristic and a name
C6_Witness ==
    /\ last.op = "attribute_clean"
    /\ instance.characteristic # None
    /\ instance.name # <<>>
    /\ last.result = "AttributeIdentityConflict"

\* ------------------------------------------------------------ Category

Categories == DOMAIN parent

\* Category.get_top_categories
get_top_categories == {c \in Categories : parent[c] = None}

\* get_siblings that finds no siblings for a root
SiblingsOfChildOnly(selfId, selfParent) ==
    IF selfParent = None
    THEN {}
    ELSE {c \in Categories : parent[c] = selfParent} \ {selfId}

\* Category.get_siblings of an instance with the given id (None when the
\* instance is not saved yet) and parent
get_siblings(selfId, selfParent) ==
    IF selfParent = None
    THEN get_top_categories \ {selfId}
    ELSE {c \in Categories : parent[c] = selfParent} \ {selfId}

\* Category.clean: the error it raises, or "ok"
CategoryClean(selfId, selfName, selfParent) ==
    LET newSlug == Slugify(Unidecode(selfName))
    IN  IF \E s \in get_siblings(selfId, selfParent) : slug[s] = newSlug
        THEN "DuplicateSiblingSlug"
        ELSE "ok"

\* Category.save: recomputes the slug and writes the row (insert or update)
CategorySave(selfId, selfName, selfParent) ==
    /\ parent' = [c \in Categories \cup {selfId} |->
                     IF c = selfId THEN selfParent ELSE parent[c]]
    /\ name' = [c \in Categories \cup {selfId} |->
                     IF c = selfId THEN selfName ELSE name[c]]
    /\ slug' = [c \in Categories \cup {selfId} |->
                     IF c = selfId THEN Slugify(Unidecode(selfName)) ELSE slug[c]]

\* no generator is running
Idle == [state |-> "idle", node |-> None, yielded |-> 0]

\* the instances a caller can hold: a new one (the next id, its parent a saved
\* category or None) or a saved one with its name and parent edited
CategoryInput(c, p) ==
    /\ c \in SaveCategoryIds
    /\ \/ c \in Categories
       \/ c = Cardinality(Categories) + 1
    /\ p \in Categories \cup {None}

\* full_clean() followed by save(), as a ModelForm or the admin does
CategoryFullCleanSave(c, n, p) ==
    /\ walk.state # "active"
    /\ CategoryInput(c, p)
    /\ LET res == CategoryClean(IF c \in Categories THEN c ELSE None, n, p)
       IN  /\ last' = [op |-> "category_full_clean_save", id |-> c,
                       name |-> n, parent |-> p, result |-> res]
           /\ IF res = "ok"
              THEN CategorySave(c, n, p)
              ELSE UNCHANGED <<parent, name, slug>>
    /\ walk' = Idle
    /\ UNCHANGED <<charCategory, productCategory, attributes, instance>>

\* save() called directly: Model.save() runs no validation
CategorySaveOnly(c, n, p) ==
    /\ walk.state # "active"
    /\ CategoryInput(c, p)
    /\ CategorySave(c, n, p)
    /\ last' = [op |-> "category_save", id |-> c, name |-> n, parent |-> p,
                result |-> "ok"]
    /\ walk' = Idle
    /\ UNCHANGED <<charCategory, productCategory, attributes, instance>>

\* Category.get_ancestors, run as the generator it is: the call
GetAncestorsStart(c) ==
    /\ walk.state # "active"
    /\ c \in Categories
    /\ walk' = [state |-> "active", node |-> c, yielded |-> 0]
    /\ last' = [op |-> "get_ancestors_iter", id |-> c]
    /\ UNCHANGED <<parent, name, slug, charCategory, productCategory,
                   attributes, instance>>

\* one next() on the generator: the frame at walk.node yields its parent and
\* descends into parent.get_ancestors(), or ends; the nested frames are
\* bounded by the interpreter's recursion limit only
GetAncestorsNext ==
    /\ walk.state = "active"
    /\ IF parent[walk.node] = None
       THEN walk' = [walk EXCEPT !.state = "done"]
       ELSE IF walk.yielded >= RecursionLimit
            THEN walk' = [walk EXCEPT !.state = "recursion_error"]
            ELSE walk' = [walk EXCEPT !.node = parent[walk.node],
                                      !.yielded = walk.yielded + 1]
    /\ UNCHANGED <<parent, name, slug, charCategory, productCategory,
                   attributes, instance, last>>

InitCategory ==
    /\ parent = << >>
    /\ name = << >>
    /\ slug = << >>
    /\ charCategory = << >>
    /\ productCategory = << >>
    /\ attributes = << >>
    /\ instance = NewAttribute
    /\ walk = Idle
    /\ last = [op |-> "none"]

NextCategory ==
    \/ \E c \in SaveCategoryIds, n \in CategoryNames, p \in SaveCategoryIds \cup {None} :
          CategoryFullCleanSave(c, n, p)
    \/ \E c \in SaveCategoryIds, n \in CategoryNames, p \in SaveCategoryIds \cup {None} :
          CategorySaveOnly(c, n, p)
    \/ \E c \in SaveCategoryIds : GetAncestorsStart(c)
    \/ GetAncestorsNext

\* category saves of every kind, and ancestor walks
SpecCategory == InitCategory /\ [][NextCategory]_vars

\* ------------------------------------------------- Category tree queries

\* get_ancestors that does not go past the parent
AncestorsParentOnly(c) ==
    IF parent[c] # None THEN <<parent[c]>> ELSE <<>>

\* Category.get_ancestors, as the sequence the generator yields
RECURSIVE get_ancestors(_)
get_ancestors(c) ==
    IF parent[c] # None
    THEN <<parent[c]>> \o get_ancestors(parent[c])
    ELSE <<>>

\* self.children.all(): the reverse side of Category.parent
children(c) == SetToSeq({d \in Categories : parent[d] = c})

\* Category.get_descendants, as the sequence the generator yields: the loop
\* over the children, each followed by its own descendants
RECURSIVE get_descendants(_)
RECURSIVE DescendantsOfEach(_)
DescendantsOfEach(cs) ==
    IF cs = <<>> THEN <<>>
    ELSE <<Head(cs)>> \o get_descendants(Head(cs)) \o DescendantsOfEach(Tail(cs))

\* get_descendants that yields the category itself first
DescendantsWithSelf(c) == <<c>> \o DescendantsOfEach(children(c))

get_descendants(c) == DescendantsOfEach(children(c))

Products == DOMAIN productCategory

\* get_products without descendants.add(self)
ProductsOfDescendantsOnly(c) ==
    LET descendants == Range(get_descendants(c))
    IN  {p \in Products : productCategory[p] \in descendants}

\* Category.get_products
get_products(c) ==
    LET descendants == Range(get_descendants(c)) \cup {c}
    IN  {p \in Products : productCategory[p] \in descendants}

\* c.characteristics.all(): the reverse side of Characteristic.category
characteristics(c) ==
    SetToSeq({ch \in DOMAIN charCategory : charCategory[ch] = c})

\* the loop of get_all_characteristics: one pass for each ancestor yielded,
\* each pass adding list(self.parent.characteristics.all())
RECURSIVE AddForEachAncestor(_, _)
AddForEachAncestor(ancestors, c) ==
    IF ancestors = <<>> THEN <<>>
    ELSE characteristics(parent[c]) \o AddForEachAncestor(Tail(ancestors), c)

\* Category.get_all_characteristics
get_all_characteristics(c) ==
    characteristics(c) \o AddForEachAncestor(get_ancestors(c), c)

\* the queries, called on a saved category
CallGetAncestors(c) ==
    /\ last' = [op |-> "get_ancestors", id |-> c, result |-> get_ancestors(c)]
    /\ UNCHANGED <<parent, name, slug, charCategory, productCategory,
                   attributes, instance, walk>>

CallGetDescendants(c) ==
    /\ last' = [op |-> "get_descendants", id |-> c, result |-> get_descendants(c)]
    /\ UNCHANGED <<parent, name, slug, charCategory, productCategory,
                   attributes, instance, walk>>

CallGetProducts(c) ==
    /\ last' = [op |-> "get_products", id |-> c, result |-> get_products(c)]
    /\ UNCHANGED <<parent, name, slug, charCategory, productCategory,
                   attributes, instance, walk>>

CallGetAllCharacteristics(c) ==
    /\ last' = [op |-> "get_all_characteristics", id |-> c,
                result |-> get_all_characteristics(c)]
    /\ UNCHANGED <<parent, name, slug, charCategory, productCategory,
                   attributes, instance, walk>>

\* names with pairwise different slugs for the categories of a drawn catalogue
TreeNames == <<"a", "b", "c", "d", "e", "f">>

\* the category tables that creating categories 1, 2, ... in turn, each under
\* a category saved before it or as a root, leaves: every shape of forest
Forests ==
    {f \in [CategoryIds -> CategoryIds \cup {None}] : \A c \in CategoryIds : f[c] < c}

InitCatalogue ==
    /\ parent \in Forests
    /\ name = [c \in CategoryIds |-> <<TreeNames[c]>>]
    /\ slug = [c \in CategoryIds |-> Slugify(Unidecode(<<TreeNames[c]>>))]
    /\ charCategory \in [CharacteristicIds -> CategoryIds]
    /\ walk = Idle
    /\ last = [op |-> "none"]

\* a catalogue with its products saved, on which the queries are called
InitTree ==
    /\ InitCatalogue
    /\ productCategory \in [ProductIds -> CategoryIds]
    /\ attributes = << >>
    /\ instance = NewAttribute

NextTree ==
    \/ \E c \in CategoryIds : CallGetAncestors(c)
    \/ \E c \in CategoryIds : CallGetDescendants(c)
    \/ \E c \in CategoryIds : CallGetProducts(c)
    \/ \E c \in CategoryIds : CallGetAllCharacteristics(c)

SpecTree == InitTree /\ [][NextTree]_vars

\* ---- C3, C7, C8, C9

\* the ancestors of c read off the parent column: the categories reached by
\* following parent one or more times
RECURSIVE Climb(_, _)
Climb(S, n) ==
    IF n = 0 THEN S
    ELSE Climb(S \cup {parent[x] : x \in {y \in S : parent[y] # None}}, n - 1)

AncestorSet(c) ==
    IF parent[c] = None THEN {} ELSE Climb({parent[c]}, Cardinality(Categories))

\* how often x occurs in the sequence s
Occurrences(s, x) == Cardinality({i \in DOMAIN s : s[i] = x})

\* C3: get_all_characteristics(c) holds every characteristic owned by c or by
\* an ancestor of c exactly once, and nothing else
C3_AllCharacteristicsOncePerAncestor ==
    last.op = "get_all_characteristics" =>
        \A ch \in DOMAIN charCategory :
            Occurrences(last.result, ch) =
                IF charCategory[ch] \in AncestorSet(last.id) \cup {last.id} THEN 1 ELSE 0

\* C7: get_products(c) is exactly the set of products whose category is c or
\* has c among its ancestors
C7_ProductsOfSubtree ==
    last.op = "get_products" =>
        last.result =
            {p \in Products : last.id \in AncestorSet(productCategory[p])
                                          \cup {productCategory[p]}}

\* get_products returned a product of a category two levels below c
C7_Witness ==
    /\ last.op = "get_products"
    /\ \E p \in last.result :
          /\ parent[productCategory[p]] # None
          /\ parent[parent[productCategory[p]]] = last.id

\* C8: a category is neither among its own ancestors nor among its own
\* descendants
C8_NoSelfMembership ==
    /\ last.op = "get_ancestors" => last.id \notin Range(last.result)
    /\ last.op = "get_descendants" => last.id \notin Range(last.result)

\* get_descendants was called on a category with descendants at depth two
C8_Witness ==
    /\ last.op = "get_descendants"
    /\ \E d \in Range(last.result) : parent[d] # None /\ parent[d] # last.id

\* C9: get_ancestors(c) starts with the parent of c, each next element is the
\* parent of the one before, the last one is a root, none occurs twice, and
\* for a root the sequence is empty
C9_AncestorsParentToRoot ==
    last.op = "get_ancestors" =>
        LET r == last.result
        IN  /\ (parent[last.id] = None) <=> (r = <<>>)
            /\ r # <<>> =>
                  /\ r[1] = parent[last.id]
                  /\ \A i \in 1..(Len(r) - 1) : r[i + 1] = parent[r[i]]
                  /\ parent[r[Len(r)]] = None
            /\ \A i \in DOMAIN r : \A j \in DOMAIN r : r[i] = r[j] => i = j
            /\ Range(r) = AncestorSet(last.id)

\* get_ancestors was called on a category with a parent and a grandparent
C9_Witness ==
    /\ last.op = "get_ancestors"
    /\ Len(last.result) >= 2

\* ----------------------------------------------------------------- Product

\* the product the saves of SpecProduct act on
SavedProductIds == {1}

\* an attribute instance of a predefined_attributes list, bound to a
\* characteristic
PredefinedAttribute(ch) ==
    [NewAttribute EXCEPT !.characteristic = ch, !.value = <<"1">>]

\* the predefined_attributes lists a caller supplies
PredefinedBatches ==
    UNION {[1..k -> {PredefinedAttribute(ch) : ch \in CharacteristicIds}] :
             k \in 0..MaxAttrs}

\* self.attributes.all(): the rows of the product (none for an unsaved one)
ProductAttributes(selfId) ==
    SelectSeq(attributes, LAMBDA row : row.product = selfId)

\* Product._get_all_attributes
AllAttributes(selfId, predefined) == ProductAttributes(selfId) \o predefined

\* clean() that allows a move to a child only
CleanChildrenOnly(selfId, selfCategory, predefined) ==
    IF /\ selfId # None
       /\ productCategory[selfId] # selfCategory
       /\ selfCategory \notin Range(children(productCategory[selfId]))
    THEN "IllegalCategoryChange"
    ELSE LET category_characteristics == Range(get_all_characteristics(selfCategory))
             all == AllAttributes(selfId, predefined)
             attributes_characteristics == {all[i].characteristic : i \in DOMAIN all}
         IN  IF category_characteristics \ attributes_characteristics # {}
             THEN "MissingCharacteristicCoverage"
             ELSE "ok"

\* Product.clean of an instance with the given id (None when not saved yet),
\* category and predefined_attributes: the error it raises, or "ok"
ProductClean(selfId, selfCategory, predefined) ==
    IF /\ selfId # None
       /\ productCategory[selfId] # selfCategory
       /\ selfCategory \notin Range(get_descendants(productCategory[selfId]))
    THEN "IllegalCategoryChange"
    ELSE LET category_characteristics == Range(get_all_characteristics(selfCategory))
             all == AllAttributes(selfId, predefined)
             attributes_characteristics == {all[i].characteristic : i \in DOMAIN all}
             required_characteristics ==
                 category_characteristics \ attributes_characteristics
         IN  IF required_characteristics # {}
             THEN "MissingCharacteristicCoverage"
             ELSE "ok"

\* the loop of Product.save: attribute.product = self; attribute.save()
RECURSIVE SavePredefined(_, _, _)
SavePredefined(table, predefined, selfId) ==
    IF predefined = <<>> THEN table
    ELSE SavePredefined(
             WriteAttribute(table,
                 ProductAttributeSave([Head(predefined) EXCEPT !.product = selfId])),
             Tail(predefined), selfId)

\* Product.save: writes the product row, then saves the predefined attributes
ProductSave(p, selfCategory, predefined) ==
    /\ productCategory' = [q \in Products \cup {p} |->
                              IF q = p THEN selfCategory ELSE productCategory[q]]
    /\ attributes' = SavePredefined(attributes, predefined, p)

\* the instances a caller can hold: the product, new or loaded, with a
\* category of the catalogue and a list of new attribute instances
ProductInput(p, predefined) ==
    /\ p \in SavedProductIds
    /\ Len(attributes) + Len(predefined) <= MaxAttrs

\* full_clean() followed by save(), as a ModelForm or the admin does
ProductFullCleanSave(p, selfCategory, predefined) ==
    /\ ProductInput(p, predefined)
    /\ LET selfId == IF p \in Products THEN p ELSE None
           res == ProductClean(selfId, selfCategory, predefined)
       IN  /\ last' = [op |-> "product_full_clean_save", id |-> p,
                       previous |-> IF selfId = None THEN None ELSE productCategory[p],
                       category |-> selfCategory, result |-> res]
           /\ IF res = "ok"
              THEN ProductSave(p, selfCategory, predefined)
              ELSE UNCHANGED <<productCategory, attributes>>
    /\ UNCHANGED <<parent, name, slug, charCategory, instance, walk>>

\* save() called directly: Model.save() runs no validation
ProductSaveOnly(p, selfCategory, predefined) ==
    /\ ProductInput(p, predefined)
    /\ ProductSave(p, selfCategory, predefined)
    /\ last' = [op |-> "product_save", id |-> p,
                previous |-> IF p \in Products THEN productCategory[p] ELSE None,
                category |-> selfCategory, result |-> "ok"]
    /\ UNCHANGED <<parent, name, slug, charCategory, instance, walk>>

\* a catalogue with no product saved yet
InitProduct ==
    /\ InitCatalogue
    /\ productCategory = << >>
    /\ attributes = << >>
    /\ instance = NewAttribute

NextProduct ==
    \/ \E p \in SavedProductIds, c \in CategoryIds, b \in PredefinedBatches :
          ProductFullCleanSave(p, c, b)
    \/ \E p \in SavedProductIds, c \in CategoryIds, b \in PredefinedBatches :
          ProductSaveOnly(p, c, b)

SpecProduct == InitProduct /\ [][NextProduct]_vars

\* ---- C1, C2

\* the characteristics owned by c or by an ancestor of c
InheritedCharacteristics(c) ==
    {ch \in DOMAIN charCategory : charCategory[ch] \in AncestorSet(c) \cup {c}}

\* the rows of product p bound to characteristic ch
BoundRows(p, ch) ==
    {i \in DOMAIN attributes :
        attributes[i].product = p /\ attributes[i].characteristic = ch}

\* the first half of C1 alone: none is missing
NoInheritedCharacteristicMissing ==
    (last.op = "product_full_clean_save" /\ last.result = "ok") =>
        \A ch \in InheritedCharacteristics(productCategory[last.id]) :
            BoundRows(last.id, ch) # {}

\* C1: after a save that passed validation, every characteristic owned by the
\* product's category or by an ancestor of it has exactly one attribute of
\* the product bound to it
C1_EveryInheritedCharacteristicCoveredOnce ==
    (last.op = "product_full_clean_save" /\ last.result = "ok") =>
        \A ch \in InheritedCharacteristics(productCategory[last.id]) :
            Cardinality(BoundRows(last.id, ch)) = 1

\* the rows of product p cover every characteristic owned by category c or
\* by an ancestor of it
CoversTarget(p, c) ==
    \A ch \in InheritedCharacteristics(c) : BoundRows(p, ch) # {}

SiblingSlugsUnique ==
    \A c \in Categories : \A d \in Categories :
        (c # d /\ parent[c] = parent[d]) => slug[c] # slug[d]

\* the slug of each name that can be entered
SlugOfName == [n \in CategoryNames |-> Slugify(Unidecode(n))]

\* a saved sibling of the instance of the last save has the slug recomputed
\* from the name that was entered
LastSlugTaken ==
    \E d \in Categories \ {last.id} :
        /\ parent[d] = last.parent
        /\ slug[d] = SlugOfName[last.name]

\* C4 as stated: whatever saves have run, no two siblings share a slug, and a
\* save whose recomputed slug is a sibling's is rejected with
\* DuplicateSiblingSlug
C4_SaveRejectsDuplicateSlug ==
    /\ SiblingSlugsUnique
    /\ last.op \in {"category_save", "category_full_clean_save"} =>
          (last.result = "DuplicateSiblingSlug" <=> LastSlugTaken)

\* C4 amended: a save that follows clean() keeps sibling slugs unique, and
\* clean() raises DuplicateSiblingSlug exactly when a sibling of the instance
\* has the recomputed slug, leaving the table as it was
C4_ValidatedSaveKeepsSlugsUnique ==
    [][(last'.op = "category_full_clean_save" /\ SiblingSlugsUnique) =>
          /\ SiblingSlugsUnique'
          /\ last'.result = "DuplicateSiblingSlug" <=> LastSlugTaken'
          /\ last'.result = "DuplicateSiblingSlug" =>
                <<parent, name, slug>>' = <<parent, name, slug>>]_vars

\* a validated save was rejected because a sibling with another name has the
\* same slug
C4_Witness ==
    /\ last.op = "category_full_clean_save"
    /\ last.result = "DuplicateSiblingSlug"
    /\ \E d \in Categories \ {last.id} :
          /\ parent[d] = last.parent
          /\ name[d] # last.name
          /\ slug[d] = SlugOfName[last.name]

\* C10: every get_ancestors walk is guarded against a cyclic parent chain: it
\* yields no category twice (so at most as many ancestors as there are
\* categories) and ends by exhausting the chain, not at the recursion limit
C10_AncestorWalkGuarded ==
    /\ walk.yielded <= Cardinality(Categories)
    /\ walk.state # "recursion_error"

=============================================================================
